---- MODULE Spec2Model ----
(***************************************************************************)
(* Model of VisualTestHelper (src/src/helpers/VisualTestHelper.ts): the    *)
(* page-stabilization steps, the screenshot comparison against the         *)
(* base-images store, and the AI escalation that may override a failed     *)
(* comparison.  One test drives one helper: it may call setupVisualTest    *)
(* and then compareFullPage, as tests/visual/home-screen.spec.ts does.     *)
(* Every await of the helper is one step of the model.                     *)
(***************************************************************************)
EXTENDS Integers, Sequences, FiniteSets, TLC

VARIABLES
    openai,        \* this.openai is set (an API key was given to the constructor)
    store,         \* the base-images directory: path -> image, or NoFile
    page,          \* the page's elements: element -> inline style
    pc,            \* position of the test within the helper's code
    setupOpts,     \* options of the setupVisualTest call
    setupCalled,   \* setupVisualTest was called in this test
    name,          \* first argument of the compareFullPage call
    options,       \* second argument of the compareFullPage call
    hadBaseline,   \* base-images/<name>.png existed when compareFullPage was called
    steps,         \* stabilization and capture steps of this test, in order
    selectors,     \* the selector list of the running hide or mask loop
    selIdx,        \* number of iterations of that loop finished
    processed,     \* the selectors whose evaluateAll was attempted in that loop
    firstErr,      \* index of the first selector whose evaluateAll threw, or 0
    ret,           \* where the running hide or mask loop returns to
    animTimedOut,  \* waitForFunction hit its timeout in this test
    capture,       \* the image captured by toHaveScreenshot, or NoFile
    pixel,         \* outcome of the pixel comparison: "none", "pass" or "fail"
    diff,          \* number of differing pixels the comparison found
    error,         \* the error caught at line 38, or NoError
    aiCalls,       \* calls of openai.chat.completions.create in this check
    aiOutcome,     \* what the analysis met: "none", "noimages", "error", "empty", "text"
    aiError,       \* the error raised inside analyzeVisualDifferencesWithAI, or NoError
    request,       \* the two encoded images sent to the classifier, or NoRequest
    response,      \* the content the classifier returned, or <<>>
    aiAnalysis,    \* the value analyzeVisualDifferencesWithAI returned
    result,        \* "none", "PASSED" (the call returned) or "FAILED" (it threw)
    thrown,        \* the error the caller received, or NoError
    log,           \* the lines written to the console by the helper, in order
    touched,       \* the paths of base-images this check read, tested or wrote
    hideComplete,  \* a hide pass in which no evaluateAll threw has finished
    pageAtHideBegin \* the page as the running hide pass found it

vars == << openai, store, page, pc, setupOpts, setupCalled, name, options,
           hadBaseline, steps, selectors, selIdx, processed, firstErr, ret,
           animTimedOut, capture, pixel, diff, error, aiCalls, aiOutcome, aiError,
           request, response, aiAnalysis, result, thrown, log, touched,
           hideComplete, pageAtHideBegin >>

(***************************************************************************)
(* Bound of the model.                                                     *)
(***************************************************************************)
NPix == 4          \* pixels of an image

(***************************************************************************)
(* JavaScript values.                                                      *)
(***************************************************************************)
NoFile == <<>>
NoError == [kind |-> "none"]
NoRequest == <<>>
NoOptions == [k \in {} |-> TRUE]

JsNull == [null |-> TRUE, text |-> <<>>]

JsString(t) == [null |-> FALSE, text |-> t]

\* a null and the empty string are falsy
Truthy(v) == ~v.null /\ v.text # <<>>

\* content || null
OrNull(v) == IF Truthy(v) THEN v ELSE JsNull

\* { ...defaults, ...given }: a key of given replaces the same key of defaults
Spread(defaults, given) ==
    [k \in DOMAIN defaults \cup DOMAIN given |->
        IF k \in DOMAIN given THEN given[k] ELSE defaults[k]]

\* const { key = dflt } = given
Destructure(given, key, dflt) == IF key \in DOMAIN given THEN given[key] ELSE dflt

(***************************************************************************)
(* Strings are sequences of characters.                                    *)
(***************************************************************************)
\* "MINOR - font rendering"
RespMinorFont ==
    <<"M", "I", "N", "O", "R", " ", "-", " ", "f", "o", "n", "t", " ", "r", "e", "n", "d", "e", "r", "i", "n", "g">>

\* "SIGNIFICANT - element missing"
RespSignificantMissing ==
    <<"S", "I", "G", "N", "I", "F", "I", "C", "A", "N", "T", " ", "-", " ", "e", "l", "e", "m", "e", "n", "t", " ", "m", "i", "s", "s", "i", "n", "g">>

\* "Looks Acceptable"
RespAcceptable ==
    <<"L", "o", "o", "k", "s", " ", "A", "c", "c", "e", "p", "t", "a", "b", "l", "e">>

\* "INSIGNIFICANT shift"
RespInsignificant ==
    <<"I", "N", "S", "I", "G", "N", "I", "F", "I", "C", "A", "N", "T", " ", "s", "h", "i", "f", "t">>

\* "SIGNIFICANT - not minor"
RespNotMinor ==
    <<"S", "I", "G", "N", "I", "F", "I", "C", "A", "N", "T", " ", "-", " ", "n", "o", "t", " ", "m", "i", "n", "o", "r">>

\* "SIGNIFICANT - min or max"
RespSplit ==
    <<"S", "I", "G", "N", "I", "F", "I", "C", "A", "N", "T", " ", "-", " ", "m", "i", "n", " ", "o", "r", " ", "m", "a", "x">>

\* ""
RespEmpty ==
    <<>>

TokMinor == <<"m", "i", "n", "o", "r">>

TokInsignificant == <<"i", "n", "s", "i", "g", "n", "i", "f", "i", "c", "a", "n", "t">>

TokAcceptable == <<"a", "c", "c", "e", "p", "t", "a", "b", "l", "e">>

UpperCase == <<"A", "B", "C", "D", "E", "F", "G", "H", "I", "J", "K", "L", "M", "N", "O", "P", "Q", "R", "S", "T", "U", "V", "W", "X", "Y", "Z">>

LowerCase == <<"a", "b", "c", "d", "e", "f", "g", "h", "i", "j", "k", "l", "m", "n", "o", "p", "q", "r", "s", "t", "u", "v", "w", "x", "y", "z">>

Responses == { RespMinorFont, RespSignificantMissing, RespAcceptable, RespInsignificant,
               RespNotMinor, RespSplit, RespEmpty }

\* String.prototype.toLowerCase, one character
LowerChar(c) ==
    IF \E i \in DOMAIN UpperCase : UpperCase[i] = c
    THEN LowerCase[CHOOSE i \in DOMAIN UpperCase : UpperCase[i] = c]
    ELSE c

toLowerCase(s) == [i \in DOMAIN s |-> LowerChar(s[i])]

\* s has t at position i
RECURSIVE MatchAt(_, _, _, _)
MatchAt(s, t, i, k) ==
    IF k > Len(t) THEN TRUE
    ELSE IF i + k - 1 > Len(s) THEN FALSE
    ELSE IF s[i + k - 1] # t[k] THEN FALSE
    ELSE MatchAt(s, t, i, k + 1)

\* String.prototype.includes: scan the start positions from the left
RECURSIVE IncludesFrom(_, _, _)
IncludesFrom(s, t, i) ==
    IF i + Len(t) - 1 > Len(s) THEN FALSE
    ELSE IF MatchAt(s, t, i, 1) THEN TRUE
    ELSE IncludesFrom(s, t, i + 1)

includes(s, t) == IncludesFrom(s, t, 1)

(***************************************************************************)
(* Images and the pixel comparison.                                        *)
(***************************************************************************)
Image(k) == [i \in 1..NPix |-> IF i <= k THEN 1 ELSE 0]

Images == {Image(k) : k \in 0..NPix}

DiffPixels(a, b) == Cardinality({i \in 1..NPix : a[i] # b[i]})

\* threshold: 0.3, in percent of the pixels
DefaultThreshold == 30

\* the differing fraction is tolerated: d / NPix <= threshold / 100
WithinThreshold(d, threshold) == d * 100 <= threshold * NPix

(***************************************************************************)
(* The base-images directory.  A check name and a path are sequences of    *)
(* tokens, so that `${name}.png` is a concatenation.                       *)
(***************************************************************************)
Names == { <<"home">>, <<"home", "-actual">> }

baseImagesDir == <<"base-images/">>

expectedImagePath(testName) == baseImagesDir \o testName \o <<".png">>

actualImagePath(testName) == baseImagesDir \o testName \o <<"-actual", ".png">>

diffImagePath(testName) == baseImagesDir \o testName \o <<"-diff", ".png">>

Paths == UNION { {expectedImagePath(n), actualImagePath(n), diffImagePath(n)} : n \in Names }

\* fs.existsSync
existsSync(st, p) == p \in DOMAIN st /\ st[p] # NoFile

\* the three paths of a test name, whether or not the files exist
FindLatestNoExistsCheck(st, testName) ==
    [ actualImage   |-> actualImagePath(testName),
      expectedImage |-> expectedImagePath(testName),
      diffImage     |-> diffImagePath(testName) ]

\* the three artifacts of a test name that exist, a missing one as NoFile
findLatestTestResult(st, testName) ==
    [ actualImage   |-> IF existsSync(st, actualImagePath(testName))
                        THEN actualImagePath(testName) ELSE NoFile,
      expectedImage |-> IF existsSync(st, expectedImagePath(testName))
                        THEN expectedImagePath(testName) ELSE NoFile,
      diffImage     |-> IF existsSync(st, diffImagePath(testName))
                        THEN diffImagePath(testName) ELSE NoFile ]

\* one base64 character per pixel: 0x00 is "A", 0xff is "/"
encodeImageToBase64(st, imagePath) ==
    [i \in DOMAIN st[imagePath] |-> IF st[imagePath][i] = 1 THEN "/" ELSE "A"]

\* the defaults written after the spread, so that they replace the caller's
ScreenshotOptionsDefaultsWin(nm, opts) ==
    Spread(opts, [path |-> expectedImagePath(nm), fullPage |-> TRUE,
                  threshold |-> DefaultThreshold])

\* the options object handed to toHaveScreenshot
ScreenshotOptions(nm, opts) ==
    Spread([path |-> expectedImagePath(nm), fullPage |-> TRUE,
            threshold |-> DefaultThreshold], opts)

\* the file next to the baseline at path p that carries the given suffix
ArtifactPath(p, suffix) == SubSeq(p, 1, Len(p) - 1) \o <<suffix, ".png">>

ScreenshotMismatch(p, d) == [kind |-> "ScreenshotMismatch", path |-> p, diffPixels |-> d]

\* expect(page).toHaveScreenshot: no baseline at the path writes the capture as
\* the baseline and passes; a baseline within the threshold passes; otherwise the
\* actual and the diff image are written next to the baseline and the call throws
toHaveScreenshot(st, img, opts) ==
    LET p == opts.path
        d == DiffPixels(st[p], img)
    IN  IF ~existsSync(st, p)
        THEN [ok |-> TRUE, diff |-> 0, store |-> [st EXCEPT ![p] = img],
              error |-> NoError]
        ELSE IF WithinThreshold(d, opts.threshold)
        THEN [ok |-> TRUE, diff |-> d, store |-> st, error |-> NoError]
        ELSE [ok |-> FALSE, diff |-> d,
              store |-> [st EXCEPT ![ArtifactPath(p, "-actual")] = img,
                                   ![ArtifactPath(p, "-diff")] = Image(d)],
              error |-> ScreenshotMismatch(p, d)]

(***************************************************************************)
(* The page.                                                               *)
(***************************************************************************)
flakeySelectors ==
    << "video", ".animation", ".gif", "[data-testid=\"loading\"]", ".loading", ".spinner" >>

\* the maskSelectors of tests/visual/home-screen.spec.ts
TestMaskSelectors ==
    << "[aria-label=\"Google apps\"]", "form[role=\"search\"]", "[jscontroller]" >>

Elements == { "player", "spinner", "apps", "logo" }

\* page.locator(selector): the elements of the page the selector matches
locator(selector) ==
    CASE selector = "video" -> { "player" }
      [] selector = ".loading" -> { "spinner" }
      [] selector = ".spinner" -> { "spinner" }
      [] selector = "[aria-label=\"Google apps\"]" -> { "apps" }
      [] selector = "[jscontroller]" -> { "apps", "player" }
      [] OTHER -> {}

\* the inline style of an element: the properties the helper assigns and the
\* properties the element's box is laid out from
InitialStyle ==
    [visibility |-> "", backgroundColor |-> "", color |-> "", display |-> "", width |-> ""]

\* the inline properties that decide the bounding box of an element;
\* visibility, backgroundColor and color are not among them
BoundingBox(style) == [display |-> style.display, width |-> style.width]

InitialPage == [e \in Elements |-> InitialStyle]

\* a hide that flips the visibility of the elements instead of setting it
HideElementsToggle(pg, els) ==
    [e \in Elements |->
        IF e \in els
        THEN [pg[e] EXCEPT !.visibility = IF pg[e].visibility = "hidden" THEN "" ELSE "hidden"]
        ELSE pg[e]]

\* elements.forEach(el => el.style.visibility = 'hidden')
HideElements(pg, els) ==
    [e \in Elements |-> IF e \in els THEN [pg[e] EXCEPT !.visibility = "hidden"] ELSE pg[e]]

\* a mask that takes the elements out of the layout
MaskElementsCollapse(pg, els) ==
    [e \in Elements |->
        IF e \in els
        THEN [pg[e] EXCEPT !.backgroundColor = "#cccccc", !.display = "none"]
        ELSE pg[e]]

\* elements.forEach(el => { backgroundColor = '#cccccc'; color = 'transparent' })
MaskElements(pg, els) ==
    [e \in Elements |->
        IF e \in els
        THEN [pg[e] EXCEPT !.backgroundColor = "#cccccc", !.color = "transparent"]
        ELSE pg[e]]

(***************************************************************************)
(* The decisions of the helper's code.                                     *)
(***************************************************************************)
\* constructor: the client is created only for a truthy OPENAI_API_KEY
constructor(apiKey) == apiKey # ""

\* a catch that leaves the loop instead of going on
SelectorCatchBreak(i, n) == n

\* hideFlakeyElements and maskDynamicContent, catch of one selector: the error
\* is dropped and the loop goes on with the selector after selector i of n
SelectorCatch(i, n) == i + 1

\* setupVisualTest: the stage that follows stage `after`, given the options;
\* the stages are 1 networkidle, 2 animations, 3 hide, 4 mask, 5 return
setupVisualTest(after, opts) ==
    LET hideFlakey == Destructure(opts, "hideFlakey", TRUE)
        maskSelectors == Destructure(opts, "maskSelectors", <<>>)
        waitForAnimations == Destructure(opts, "waitForAnimations", TRUE)
    IN  IF after < 2 /\ waitForAnimations THEN "setup_animations"
        ELSE IF after < 3 /\ hideFlakey THEN "setup_hide"
        ELSE IF after < 4 /\ Len(maskSelectors) > 0 THEN "setup_mask"
        ELSE "ready"

\* the analysis is reached whether or not the expectation threw
TryExpectAlwaysCatch(ok) == "compare_catch"

\* try { await expect(...) } catch (error) { ... }
TryExpect(ok) == IF ok THEN "compare_return" ELSE "compare_catch"

\* without a client the error is swallowed
CatchBranchFailOpen(client) == IF client THEN "ai_analyze" ELSE "compare_return"

\* if (this.openai) { analyze } ... throw error
CatchBranch(client) == IF client THEN "ai_analyze" ELSE "compare_throw"

\* a catch that throws the classifier's error on
AnalysisCatchRethrow(e) == [next |-> "compare_decide", value |-> JsNull, raise |-> e]

\* a catch that asks the classifier again
AnalysisCatchRetry(e) == [next |-> "ai_create", value |-> JsNull, raise |-> NoError]

\* analyzeVisualDifferencesWithAI, its catch: the error is logged and null returned
AnalysisCatch(e) == [next |-> "compare_decide", value |-> JsNull, raise |-> NoError]

\* the three includes() without toLowerCase()
IsAcceptableCaseSensitive(text) ==
    \/ includes(text, TokMinor)
    \/ includes(text, TokInsignificant)
    \/ includes(text, TokAcceptable)

\* the three includes() of lines 47-49
IsAcceptable(text) ==
    \/ includes(toLowerCase(text), TokMinor)
    \/ includes(toLowerCase(text), TokInsignificant)
    \/ includes(toLowerCase(text), TokAcceptable)

\* any analysis at all passes the check
DecideBranchAnyAnalysis(analysis) ==
    IF Truthy(analysis) THEN "compare_return" ELSE "compare_throw"

\* if (aiAnalysis) { if (acceptable) return; } throw error
DecideBranch(analysis) ==
    IF Truthy(analysis) /\ IsAcceptable(analysis.text)
    THEN "compare_return" ELSE "compare_throw"

\* console.log of line 39
LogFailed == "Visual test failed. Analyzing with AI..."

\* console.error of line 212
LogAnalysisError == "Error during AI analysis:"

\* the console.log of analyzeVisualDifferencesWithAI before the request
AnalyzeLog(client, found) ==
    IF ~client THEN << "OpenAI API key not provided. Skipping AI analysis." >>
    ELSE IF found.actualImage = NoFile \/ found.expectedImage = NoFile
    THEN << "Could not find actual or expected images for AI analysis." >>
    ELSE <<>>

\* a verdict that is acted on without being logged
DecideLogSilent(analysis) == <<>>

\* the console.log of lines 44-54
DecideLog(analysis) ==
    IF ~Truthy(analysis) THEN <<>>
    ELSE IF IsAcceptable(analysis.text)
    THEN << "AI Analysis:",
            "AI determined differences are acceptable. Test will be marked as passed." >>
    ELSE << "AI Analysis:",
            "AI determined differences are significant. Test will fail." >>

\* the paths findLatestTestResult tests with existsSync
FindPaths(testName) ==
    { expectedImagePath(testName), actualImagePath(testName), diffImagePath(testName) }

\* the paths the screenshot expectation read or wrote: the baseline at path p
\* and, when the comparison failed, the actual and the diff image next to it
ScreenshotPaths(p, failed) ==
    { p } \cup (IF failed THEN { ArtifactPath(p, "-actual"), ArtifactPath(p, "-diff") } ELSE {})

TimeoutError == [kind |-> "TimeoutError"]

APIError == [kind |-> "APIError"]

(***************************************************************************)
(* Inputs.                                                                 *)
(***************************************************************************)
ApiKeys == { "", "sk-key" }

SetupOptions ==
    { NoOptions,
      [maskSelectors |-> TestMaskSelectors],
      [hideFlakey |-> FALSE],
      [hideFlakey |-> FALSE, maskSelectors |-> TestMaskSelectors],
      [waitForAnimations |-> FALSE, maskSelectors |-> TestMaskSelectors] }

CompareOptions ==
    { NoOptions, [threshold |-> 0], [threshold |-> 50], [threshold |-> 75] } \cup { [path |-> expectedImagePath(n)] : n \in Names }

\* the directory before the test: the baseline of "home" may exist, and an
\* actual image of an earlier failed run of "home" may be left over
InitialStores ==
    { [p \in Paths |->
          IF p = expectedImagePath(<<"home">>) THEN b
          ELSE IF p = actualImagePath(<<"home">>) THEN a
          ELSE NoFile] : b \in {NoFile, Image(0), Image(2)}, a \in {NoFile, Image(1)} }

Init ==
    /\ \E apiKey \in ApiKeys : openai = constructor(apiKey)
    /\ store \in InitialStores
    /\ page = InitialPage
    /\ pc = "idle"
    /\ setupOpts = NoOptions
    /\ setupCalled = FALSE
    /\ name = <<>>
    /\ options = NoOptions
    /\ hadBaseline = FALSE
    /\ steps = <<>>
    /\ selectors = <<>>
    /\ selIdx = 0
    /\ processed = <<>>
    /\ firstErr = 0
    /\ ret = "none"
    /\ animTimedOut = FALSE
    /\ capture = NoFile
    /\ pixel = "none"
    /\ diff = 0
    /\ error = NoError
    /\ aiCalls = 0
    /\ aiOutcome = "none"
    /\ aiError = NoError
    /\ request = NoRequest
    /\ response = <<>>
    /\ aiAnalysis = JsNull
    /\ result = "none"
    /\ thrown = NoError
    /\ log = <<>>
    /\ touched = {}
    /\ hideComplete = FALSE
    /\ pageAtHideBegin = InitialPage

loopVars == << selectors, selIdx, processed, firstErr, ret >>

compareVars == << name, options, hadBaseline, capture, pixel, diff, error, store >>

aiVars == << aiCalls, aiOutcome, aiError, request, response, aiAnalysis >>

auxVars == << log, touched, hideComplete, pageAtHideBegin >>

(***************************************************************************)
(* setupVisualTest                                                         *)
(***************************************************************************)
\* the test calls setupVisualTest(opts)
CallSetupVisualTest ==
    /\ pc = "idle"
    /\ ~setupCalled
    /\ \E opts \in SetupOptions : setupOpts' = opts
    /\ setupCalled' = TRUE
    /\ pc' = "setup_networkidle"
    /\ UNCHANGED << openai, page, steps, animTimedOut, result, thrown >>
    /\ UNCHANGED << loopVars, compareVars, aiVars >>
    /\ UNCHANGED auxVars

\* await this.page.waitForLoadState('networkidle'): resolves once the network
\* is idle
SetupNetworkIdle ==
    /\ pc = "setup_networkidle"
    /\ steps' = Append(steps, "networkidle")
    /\ pc' = setupVisualTest(1, setupOpts)
    /\ UNCHANGED << openai, page, setupOpts, setupCalled, animTimedOut, result, thrown >>
    /\ UNCHANGED << loopVars, compareVars, aiVars >>
    /\ UNCHANGED auxVars

\* await this.waitForAnimations(): waitForFunction resolves once no animation
\* is running
WaitForAnimationsSettled ==
    /\ pc = "setup_animations"
    /\ steps' = Append(steps, "animations")
    /\ pc' = setupVisualTest(2, setupOpts)
    /\ UNCHANGED << openai, page, setupOpts, setupCalled, animTimedOut, result, thrown >>
    /\ UNCHANGED << loopVars, compareVars, aiVars >>
    /\ UNCHANGED auxVars

\* await this.waitForAnimations(): waitForFunction rejects when its timeout
\* elapses; nothing catches the rejection, so setupVisualTest rejects
WaitForAnimationsTimeout ==
    /\ pc = "setup_animations"
    /\ steps' = Append(steps, "animations")
    /\ animTimedOut' = TRUE
    /\ thrown' = TimeoutError
    /\ pc' = "done"
    /\ UNCHANGED << openai, page, setupOpts, setupCalled, result >>
    /\ UNCHANGED << loopVars, compareVars, aiVars >>
    /\ UNCHANGED auxVars

(***************************************************************************)
(* hideFlakeyElements and maskDynamicContent                               *)
(***************************************************************************)
\* hideFlakeyElements is entered, from setupVisualTest or from compareFullPage
HideFlakeyElementsBegin ==
    /\ pc \in {"setup_hide", "compare_hide"}
    /\ steps' = Append(steps, "hide")
    /\ selectors' = flakeySelectors
    /\ selIdx' = 0
    /\ processed' = <<>>
    /\ firstErr' = 0
    /\ ret' = IF pc = "setup_hide" THEN setupVisualTest(3, setupOpts) ELSE "compare_screenshot"
    /\ pc' = "hide_loop"
    /\ UNCHANGED << openai, page, setupOpts, setupCalled, animTimedOut, result, thrown >>
    /\ UNCHANGED << compareVars, aiVars >>
    /\ pageAtHideBegin' = page
    /\ UNCHANGED << log, touched, hideComplete >>

\* one iteration: evaluateAll hides every element the selector matches (none,
\* when it matches nothing)
HideSelector ==
    /\ pc = "hide_loop"
    /\ selIdx < Len(selectors)
    /\ processed' = Append(processed, selectors[selIdx + 1])
    /\ page' = HideElements(page, locator(selectors[selIdx + 1]))
    /\ selIdx' = selIdx + 1
    /\ UNCHANGED << openai, pc, setupOpts, setupCalled, steps, selectors, firstErr, ret,
                    animTimedOut, result, thrown >>
    /\ UNCHANGED << compareVars, aiVars >>
    /\ UNCHANGED auxVars

\* one iteration: evaluateAll throws and the catch of the iteration takes it
HideSelectorThrows ==
    /\ pc = "hide_loop"
    /\ selIdx < Len(selectors)
    /\ processed' = Append(processed, selectors[selIdx + 1])
    /\ firstErr' = IF firstErr = 0 THEN selIdx + 1 ELSE firstErr
    /\ selIdx' = SelectorCatch(selIdx, Len(selectors))
    /\ UNCHANGED << openai, page, pc, setupOpts, setupCalled, steps, selectors, ret,
                    animTimedOut, result, thrown >>
    /\ UNCHANGED << compareVars, aiVars >>
    /\ UNCHANGED auxVars

\* maskDynamicContent(maskSelectors) is entered from setupVisualTest
MaskDynamicContentBegin ==
    /\ pc = "setup_mask"
    /\ steps' = Append(steps, "mask")
    /\ selectors' = Destructure(setupOpts, "maskSelectors", <<>>)
    /\ selIdx' = 0
    /\ processed' = <<>>
    /\ firstErr' = 0
    /\ ret' = setupVisualTest(4, setupOpts)
    /\ pc' = "mask_loop"
    /\ UNCHANGED << openai, page, setupOpts, setupCalled, animTimedOut, result, thrown >>
    /\ UNCHANGED << compareVars, aiVars >>
    /\ UNCHANGED auxVars

\* one iteration: evaluateAll masks every element the selector matches
MaskSelector ==
    /\ pc = "mask_loop"
    /\ selIdx < Len(selectors)
    /\ processed' = Append(processed, selectors[selIdx + 1])
    /\ page' = MaskElements(page, locator(selectors[selIdx + 1]))
    /\ selIdx' = selIdx + 1
    /\ UNCHANGED << openai, pc, setupOpts, setupCalled, steps, selectors, firstErr, ret,
                    animTimedOut, result, thrown >>
    /\ UNCHANGED << compareVars, aiVars >>
    /\ UNCHANGED auxVars

\* one iteration: evaluateAll throws and the catch of the iteration takes it
MaskSelectorThrows ==
    /\ pc = "mask_loop"
    /\ selIdx < Len(selectors)
    /\ processed' = Append(processed, selectors[selIdx + 1])
    /\ firstErr' = IF firstErr = 0 THEN selIdx + 1 ELSE firstErr
    /\ selIdx' = SelectorCatch(selIdx, Len(selectors))
    /\ UNCHANGED << openai, page, pc, setupOpts, setupCalled, steps, selectors, ret,
                    animTimedOut, result, thrown >>
    /\ UNCHANGED << compareVars, aiVars >>
    /\ UNCHANGED auxVars

\* the for loop is over and the method returns to its caller
SelectorLoopEnd ==
    /\ pc \in {"hide_loop", "mask_loop"}
    /\ selIdx >= Len(selectors)
    /\ pc' = ret
    /\ selectors' = <<>>
    /\ selIdx' = 0
    /\ processed' = <<>>
    /\ firstErr' = 0
    /\ ret' = "none"
    /\ UNCHANGED << openai, page, setupOpts, setupCalled, steps, animTimedOut, result,
                    thrown >>
    /\ UNCHANGED << compareVars, aiVars >>
    /\ hideComplete' = (hideComplete \/ (pc = "hide_loop" /\ firstErr = 0))
    /\ pageAtHideBegin' = InitialPage
    /\ UNCHANGED << log, touched >>

(***************************************************************************)
(* compareFullPage                                                         *)
(***************************************************************************)
\* the test calls compareFullPage(name, options), after setupVisualTest or not
CallCompareFullPage ==
    /\ pc \in {"idle", "ready"}
    /\ \E n \in Names, opts \in CompareOptions :
          /\ name' = n
          /\ options' = opts
          /\ hadBaseline' = existsSync(store, expectedImagePath(n))
    /\ pc' = "compare_networkidle"
    /\ UNCHANGED << openai, page, setupOpts, setupCalled, steps, animTimedOut, result,
                    thrown, capture, pixel, diff, error, store >>
    /\ UNCHANGED << loopVars, aiVars >>
    /\ UNCHANGED auxVars

\* await this.page.waitForLoadState('networkidle')
CompareNetworkIdle ==
    /\ pc = "compare_networkidle"
    /\ steps' = Append(steps, "networkidle")
    /\ pc' = "compare_hide"
    /\ UNCHANGED << openai, page, setupOpts, setupCalled, animTimedOut, result, thrown >>
    /\ UNCHANGED << loopVars, compareVars, aiVars >>
    /\ UNCHANGED auxVars

\* await expect(this.page).toHaveScreenshot({...}) inside the try
Screenshot ==
    /\ pc = "compare_screenshot"
    /\ \E img \in Images :
          LET r == toHaveScreenshot(store, img, ScreenshotOptions(name, options))
          IN  /\ capture' = img
              /\ store' = r.store
              /\ diff' = r.diff
              /\ pixel' = IF r.ok THEN "pass" ELSE "fail"
              /\ error' = r.error
              /\ pc' = TryExpect(r.ok)
    /\ steps' = Append(steps, "capture")
    /\ UNCHANGED << openai, page, setupOpts, setupCalled, animTimedOut, result, thrown,
                    name, options, hadBaseline >>
    /\ UNCHANGED << loopVars, aiVars >>
    /\ touched' = touched \cup ScreenshotPaths(ScreenshotOptions(name, options).path,
                                                  pixel' = "fail")
    /\ UNCHANGED << log, hideComplete, pageAtHideBegin >>

\* catch (error): the analysis is asked for only when the client exists
Catch ==
    /\ pc = "compare_catch"
    /\ pc' = CatchBranch(openai)
    /\ UNCHANGED << openai, page, setupOpts, setupCalled, steps, animTimedOut, result,
                    thrown >>
    /\ UNCHANGED << loopVars, compareVars, aiVars >>
    /\ log' = Append(log, LogFailed)
    /\ UNCHANGED << touched, hideComplete, pageAtHideBegin >>

\* analyzeVisualDifferencesWithAI up to the request: null without a client or
\* without the actual or the expected image, else both images are encoded
Analyze ==
    /\ pc = "ai_analyze"
    /\ LET found == findLatestTestResult(store, name)
       IN  IF ~openai
           THEN /\ aiAnalysis' = JsNull
                /\ pc' = "compare_decide"
                /\ UNCHANGED << aiOutcome, request >>
           ELSE IF found.actualImage = NoFile \/ found.expectedImage = NoFile
           THEN /\ aiAnalysis' = JsNull
                /\ aiOutcome' = "noimages"
                /\ pc' = "compare_decide"
                /\ UNCHANGED request
           ELSE /\ request' = [expected |-> encodeImageToBase64(store, found.expectedImage),
                               actual |-> encodeImageToBase64(store, found.actualImage)]
                /\ pc' = "ai_create"
                /\ UNCHANGED << aiAnalysis, aiOutcome >>
    /\ UNCHANGED << openai, page, setupOpts, setupCalled, steps, animTimedOut, result,
                    thrown, aiCalls, aiError, response >>
    /\ UNCHANGED << loopVars, compareVars >>
    /\ log' = log \o AnalyzeLog(openai, findLatestTestResult(store, name))
    /\ touched' = touched \cup (IF openai THEN FindPaths(name) ELSE {})
    /\ UNCHANGED << hideComplete, pageAtHideBegin >>

\* await this.openai.chat.completions.create(...) resolves: the content of the
\* first choice, or null when there is none, is returned
CreateResolves ==
    /\ pc = "ai_create"
    /\ aiCalls' = aiCalls + 1
    /\ \E content \in {JsNull} \cup {JsString(r) : r \in Responses} :
          /\ response' = content.text
          /\ aiOutcome' = IF Truthy(content) THEN "text" ELSE "empty"
          /\ aiAnalysis' = OrNull(content)
    /\ pc' = "compare_decide"
    /\ UNCHANGED << openai, page, setupOpts, setupCalled, steps, animTimedOut, result,
                    thrown, aiError, request >>
    /\ UNCHANGED << loopVars, compareVars >>
    /\ UNCHANGED auxVars

\* await this.openai.chat.completions.create(...) rejects: the catch of the
\* analysis takes the error
CreateRejects ==
    /\ pc = "ai_create"
    /\ aiCalls' = aiCalls + 1
    /\ aiError' = APIError
    /\ aiOutcome' = "error"
    /\ LET c == AnalysisCatch(APIError)
       IN  IF c.raise # NoError
           THEN /\ thrown' = c.raise
                /\ result' = "FAILED"
                /\ pc' = "done"
                /\ UNCHANGED aiAnalysis
           ELSE /\ aiAnalysis' = c.value
                /\ pc' = c.next
                /\ UNCHANGED << thrown, result >>
    /\ UNCHANGED << openai, page, setupOpts, setupCalled, steps, animTimedOut, request,
                    response >>
    /\ UNCHANGED << loopVars, compareVars >>
    /\ log' = Append(log, LogAnalysisError)
    /\ UNCHANGED << touched, hideComplete, pageAtHideBegin >>

\* lines 43-55: a truthy analysis that names the differences acceptable passes
Decide ==
    /\ pc = "compare_decide"
    /\ pc' = DecideBranch(aiAnalysis)
    /\ UNCHANGED << openai, page, setupOpts, setupCalled, steps, animTimedOut, result,
                    thrown >>
    /\ UNCHANGED << loopVars, compareVars, aiVars >>
    /\ log' = log \o DecideLog(aiAnalysis)
    /\ UNCHANGED << touched, hideComplete, pageAtHideBegin >>

\* compareFullPage returns: the check passed
Return ==
    /\ pc = "compare_return"
    /\ result' = "PASSED"
    /\ pc' = "done"
    /\ UNCHANGED << openai, page, setupOpts, setupCalled, steps, animTimedOut, thrown >>
    /\ UNCHANGED << loopVars, compareVars, aiVars >>
    /\ UNCHANGED auxVars

\* throw error: the caught error goes to the caller, the check failed
Throw ==
    /\ pc = "compare_throw"
    /\ thrown' = error
    /\ result' = "FAILED"
    /\ pc' = "done"
    /\ UNCHANGED << openai, page, setupOpts, setupCalled, steps, animTimedOut >>
    /\ UNCHANGED << loopVars, compareVars, aiVars >>
    /\ UNCHANGED auxVars

Next ==
    \/ CallSetupVisualTest
    \/ SetupNetworkIdle
    \/ WaitForAnimationsSettled
    \/ WaitForAnimationsTimeout
    \/ HideFlakeyElementsBegin
    \/ HideSelector
    \/ HideSelectorThrows
    \/ MaskDynamicContentBegin
    \/ MaskSelector
    \/ MaskSelectorThrows
    \/ SelectorLoopEnd
    \/ CallCompareFullPage
    \/ CompareNetworkIdle
    \/ Screenshot
    \/ Catch
    \/ Analyze
    \/ CreateResolves
    \/ CreateRejects
    \/ Decide
    \/ Return
    \/ Throw

Spec == Init /\ [][Next]_vars

(***************************************************************************)
(* Properties.                                                             *)
(***************************************************************************)
\* c and the lower-case letter l are the same letter, whatever the case of c
SameLetter(c, l) ==
    \/ c = l
    \/ \E i \in DOMAIN UpperCase : UpperCase[i] = c /\ LowerCase[i] = l

\* tok occurs somewhere in text, case-insensitively
OccursIn(text, tok) ==
    \E i \in 1..Len(text) :
        /\ i + Len(tok) - 1 <= Len(text)
        /\ \A k \in 1..Len(tok) : SameLetter(text[i + k - 1], tok[k])

MinorTokens == { TokMinor, TokInsignificant, TokAcceptable }

HasMinorToken(text) == \E tok \in MinorTokens : OccursIn(text, tok)

\* the AIVerdict of the spec, read off what the classifier did in this check
AIVerdict ==
    IF aiOutcome = "text"
    THEN IF HasMinorToken(response) THEN "MINOR" ELSE "SIGNIFICANT"
    ELSE "UNAVAILABLE"

Escalated == pixel = "fail"

\* C1 Fail-closed: a check whose pixel comparison exceeded the threshold and
\* whose classifier is unavailable (no client) or raised an error ends FAILED
\* with an error thrown to the caller, and never PASSED; it is on its way to
\* the throw as soon as the classifier is known to be unavailable.
C1_FailClosed ==
    (Escalated /\ (~openai \/ aiOutcome = "error")) =>
        /\ result # "PASSED"
        /\ pc # "compare_return"
        /\ pc = "done" => (result = "FAILED" /\ thrown # NoError)

\* Scenario E: half of the pixels differ, default threshold, no credential
C1_Witness ==
    /\ pc = "done"
    /\ Escalated
    /\ ~openai
    /\ options = NoOptions
    /\ diff * 2 = NPix
    /\ result = "FAILED"

\* C2 AI-only-helps: the analysis is entered and the classifier is called only
\* after the pixel comparison failed; a check whose pixel comparison passed
\* calls no classifier and ends PASSED without an error.
C2_AIOnlyHelps ==
    /\ (aiCalls > 0 \/ aiOutcome # "none" \/ pc \in {"compare_catch", "ai_analyze", "ai_create", "compare_decide"})
          => Escalated
    /\ (pixel = "pass" /\ pc = "done") =>
          (result = "PASSED" /\ thrown = NoError /\ aiCalls = 0)
    /\ pixel = "pass" => pc \in {"compare_return", "done"}

\* Scenario B: a baseline, a difference within the threshold, a client at hand
C2_Witness ==
    /\ pc = "done"
    /\ pixel = "pass"
    /\ hadBaseline
    /\ options = NoOptions
    /\ diff > 0
    /\ openai
    /\ aiCalls = 0
    /\ result = "PASSED"

\* C3 Verdict reconciliation: an escalated check ends PASSED exactly when the
\* verdict is MINOR and ends FAILED, with an error thrown, when it is
\* SIGNIFICANT or UNAVAILABLE; no check ends FAILED with a MINOR verdict.
C3_VerdictReconciliation ==
    (pc = "done" /\ Escalated) =>
        /\ result = "PASSED" <=> AIVerdict = "MINOR"
        /\ AIVerdict \in {"SIGNIFICANT", "UNAVAILABLE"} =>
              (result = "FAILED" /\ thrown # NoError)
        /\ ~(result = "FAILED" /\ AIVerdict = "MINOR")

\* an escalated check the classifier called significant
C3_Witness ==
    /\ pc = "done"
    /\ Escalated
    /\ AIVerdict = "SIGNIFICANT"
    /\ result = "FAILED"

\* C4 Response parsing: for a non-empty response text the check passes exactly
\* when the text holds one of minor, insignificant, acceptable in any case and
\* anywhere; "MINOR - font rendering" passes and "SIGNIFICANT - element
\* missing" fails.
C4_ResponseParsing ==
    (aiOutcome = "text" /\ pc \in {"compare_return", "compare_throw", "done"}) =>
        /\ response # <<>>
        /\ (pc = "compare_return" \/ result = "PASSED") <=> HasMinorToken(response)
        /\ response = RespMinorFont => (pc = "compare_return" \/ result = "PASSED")
        /\ response = RespSignificantMissing => (pc = "compare_throw" \/ result = "FAILED")

\* Scenario C: the upper-case label of the prompt is found
C4_Witness ==
    /\ pc = "done"
    /\ response = RespMinorFont
    /\ result = "PASSED"

\* C5 Error surfacing: a check that ends FAILED after escalation throws the
\* very error the comparison raised; the error of the analysis is never what
\* the caller receives.
C5_ErrorSurfacing ==
    /\ (pc = "done" /\ result = "FAILED" /\ Escalated) =>
          (thrown = error /\ thrown.kind = "ScreenshotMismatch")
    /\ (aiError # NoError) => thrown # aiError

\* the classifier call failed and the pixel-diff error reached the caller
C5_Witness ==
    /\ pc = "done"
    /\ result = "FAILED"
    /\ aiOutcome = "error"
    /\ aiError = APIError
    /\ thrown = error
    /\ thrown.kind = "ScreenshotMismatch"

\* the first position of step s in the sequence of steps, or 0
FirstOf(s) ==
    IF \E i \in DOMAIN steps : steps[i] = s
    THEN CHOOSE i \in DOMAIN steps : steps[i] = s /\ \A j \in 1..(i - 1) : steps[j] # s
    ELSE 0

\* the steps of the contract, in its order
ContractOrder == << "networkidle", "animations", "hide", "mask", "capture" >>

\* C6 Ordering contract: once setupVisualTest and then compareFullPage have
\* run up to the capture, the steps that occurred began in the order
\* network-idle wait, animation wait, hide, mask, capture, the capture is the
\* last step, and no hide step follows a mask step.
C6_OrderingContract ==
    (setupCalled /\ capture # NoFile) =>
        /\ \A a, b \in DOMAIN ContractOrder :
              (a < b /\ FirstOf(ContractOrder[a]) > 0 /\ FirstOf(ContractOrder[b]) > 0)
                  => FirstOf(ContractOrder[a]) < FirstOf(ContractOrder[b])
        /\ steps[Len(steps)] = "capture"
        /\ \A i, j \in DOMAIN steps : (i < j /\ steps[i] = "mask") => steps[j] # "hide"

\* C7 Soft animation timeout: when the animation wait of setupVisualTest hits
\* its timeout, no error is raised and the test is not ended by it.
C7_SoftAnimationTimeout ==
    animTimedOut => (thrown = NoError /\ pc # "done")

\* C8 Bootstrap: a check of a name that had no baseline when compareFullPage
\* was called ends PASSED, without escalation and without an error, and the
\* baseline of that name then holds the captured image.
C8_Bootstrap ==
    (pc = "done" /\ name # <<>> /\ ~hadBaseline) =>
        /\ result = "PASSED"
        /\ ~Escalated
        /\ aiCalls = 0
        /\ thrown = NoError
        /\ store[expectedImagePath(name)] = capture

\* a step taken inside the hide loop or the mask loop, as C9 wants it
SelectorLoopStep ==
    pc \in {"hide_loop", "mask_loop"} =>
        /\ thrown' = NoError
        /\ pc' # "done"
        /\ \/ /\ pc' = pc
              /\ selectors' = selectors
              /\ selIdx' = selIdx + 1
              /\ processed' = SubSeq(selectors, 1, selIdx + 1)
           \/ /\ pc' = ret
              /\ processed = selectors

\* C9 Best-effort suppression: every step taken inside the hide loop or the
\* mask loop either attempts exactly the next selector of the list, whether
\* the one before matched nothing or threw, or leaves the loop with every
\* selector attempted; no step of a loop raises an error or ends the test.
C9_BestEffortSuppression == [][SelectorLoopStep]_vars

\* a hide pass is over: a selector before the last threw, selectors that match
\* nothing were met, and every selector was attempted
C9_Witness ==
    /\ pc = "hide_loop"
    /\ selIdx = Len(selectors)
    /\ firstErr \in 1..(Len(selectors) - 1)
    /\ locator(selectors[firstErr + 1]) = {}
    /\ processed = flakeySelectors
    /\ thrown = NoError

\* C10 No retry: a check calls the classifier at most once, and after a call
\* that raised an error the classifier is not called again.
C10_NoRetry ==
    /\ aiCalls <= 1
    /\ aiOutcome = "error" => pc # "ai_create"

\* the one call failed and the check is over
C10_Witness ==
    /\ pc = "done"
    /\ aiOutcome = "error"
    /\ aiCalls = 1
    /\ result = "FAILED"

\* the thresholds a check may be run with, in percent
Thresholds == { 0, 25, 30, 50, 75, 100 }

\* the threshold and the baseline path the caller asked for in this check
RequestedThreshold == Destructure(options, "threshold", DefaultThreshold)

RequestedPath == Destructure(options, "path", expectedImagePath(name))

\* the comparison of this check's baseline and capture passes at threshold t
PassesAt(t) ==
    toHaveScreenshot(store, capture, [path |-> RequestedPath, threshold |-> t]).ok

KeysOf(n) == { expectedImagePath(n), actualImagePath(n), diffImagePath(n) }

\* C12 Independence of checks: a check that does not override the path touches
\* no artifact of a check with a different name; the keys derived from two
\* different names never coincide.
C12_Independence ==
    (name # <<>> /\ "path" \notin DOMAIN options) =>
        \A other \in Names \ {name} : touched \cap KeysOf(other) = {}

\* a whole hide pass in which every evaluateAll succeeds, from selector i on
RECURSIVE HideAll(_, _)
HideAll(pg, i) ==
    IF i > Len(flakeySelectors) THEN pg
    ELSE HideAll(HideElements(pg, locator(flakeySelectors[i])), i + 1)

\* a whole mask pass over the selectors sels, from selector i on
RECURSIVE MaskAll(_, _, _)
MaskAll(pg, sels, i) ==
    IF i > Len(sels) THEN pg
    ELSE MaskAll(MaskElements(pg, locator(sels[i])), sels, i + 1)

\* C13 Stabilization idempotence: on every page the helper can produce, a
\* second hide pass after a hide pass changes nothing, and neither does a
\* second mask pass with the same selectors; in a test, a hide pass that runs
\* after a hide pass in which no evaluateAll threw leaves the page as it found
\* it, so the hide of compareFullPage after the hide of setupVisualTest does
\* not change the page that is captured.
C13_StabilizationIdempotence ==
    /\ HideAll(HideAll(page, 1), 1) = HideAll(page, 1)
    /\ MaskAll(MaskAll(page, TestMaskSelectors, 1), TestMaskSelectors, 1)
          = MaskAll(page, TestMaskSelectors, 1)
    /\ (pc = "hide_loop" /\ hideComplete) => page = pageAtHideBegin

\* the hide pass of compareFullPage is over, after the hide pass and the mask
\* pass of setupVisualTest: elements are hidden and masked, the page is as the
\* second pass found it
C13_Witness ==
    /\ pc = "hide_loop"
    /\ ret = "compare_screenshot"
    /\ hideComplete
    /\ selIdx = Len(selectors)
    /\ firstErr = 0
    /\ page = pageAtHideBegin
    /\ page["spinner"].visibility = "hidden"
    /\ page["apps"].color = "transparent"

\* a step of the mask loop, as C14 wants it: an element the selector of the
\* iteration does not match is unchanged, and of a matched element nothing but
\* backgroundColor and color changes
MaskFrameStep ==
    (pc = "mask_loop" /\ selIdx < Len(selectors)) =>
        \A e \in Elements :
            /\ e \notin locator(selectors[selIdx + 1]) => page'[e] = page[e]
            /\ \A prop \in DOMAIN page[e] \ {"backgroundColor", "color"} :
                  page'[e][prop] = page[e][prop]
            /\ page'[e].visibility = page[e].visibility
            /\ BoundingBox(page'[e]) = BoundingBox(page[e])

\* C14 Masking frame: every step of maskDynamicContent changes nothing but the
\* background colour and the text colour of the elements its selector
\* matches; their visibility and their bounding box, and every other element,
\* stay as they were.
C14_MaskingFrame == [][MaskFrameStep]_vars

\* a mask pass is over: a hidden element was masked and stayed hidden with
\* its box, an element no selector matches is untouched
C14_Witness ==
    /\ pc = "mask_loop"
    /\ selIdx = Len(selectors)
    /\ firstErr = 0
    /\ page["player"].visibility = "hidden"
    /\ page["player"].backgroundColor = "#cccccc"
    /\ page["player"].color = "transparent"
    /\ BoundingBox(page["player"]) = BoundingBox(InitialStyle)
    /\ page["logo"] = InitialStyle

\* C15 Hide only if enabled: in a test that passed hideFlakey=false to
\* setupVisualTest, no hide step has run and no element is hidden when
\* compareFullPage captures the page.
C15_HideOnlyIfEnabled ==
    (setupCalled /\ ~Destructure(setupOpts, "hideFlakey", TRUE) /\ capture # NoFile) =>
        /\ \A i \in DOMAIN steps : steps[i] # "hide"
        /\ \A e \in Elements : page[e].visibility # "hidden"

\* C16 Baseline by name: whatever the options, when the classifier is asked,
\* the baseline the capture was diffed against is base-images/<name>.png and
\* the expected image sent to the classifier is that same baseline.
C16_BaselineByName ==
    (request # NoRequest) =>
        /\ error.path = expectedImagePath(name)
        /\ request.expected = encodeImageToBase64(store, error.path)

\* the baseline and the actual image of the check's name both exist
BothArtifacts ==
    /\ existsSync(store, expectedImagePath(name))
    /\ existsSync(store, actualImagePath(name))

\* C17 Escalation needs both artifacts: with a client, the classifier is asked
\* only when base-images holds both the baseline and the actual image of the
\* name; when one is missing, no request is built, the classifier is not
\* called, and the check ends FAILED with the error of the comparison.
C17_EscalationNeedsBothArtifacts ==
    /\ (aiCalls > 0 \/ pc = "ai_create" \/ request # NoRequest) => BothArtifacts
    /\ (Escalated /\ openai /\ ~BothArtifacts) =>
          /\ aiCalls = 0
          /\ request = NoRequest
          /\ pc \notin {"ai_create", "compare_return"}
          /\ pc = "done" =>
                (result = "FAILED" /\ thrown = error /\ aiOutcome = "noimages")

\* a failed comparison with a client at hand, an artifact of the name missing:
\* the check failed without a classifier call
C17_Witness ==
    /\ pc = "done"
    /\ Escalated
    /\ openai
    /\ ~BothArtifacts
    /\ aiCalls = 0
    /\ result = "FAILED"
    /\ thrown = error

\* C18 Audit trace (as claimed): every check that ends, PASSED or FAILED, has
\* written a trace to the console, with the verdict of the classifier when it
\* gave one.
C18_AuditTrace ==
    (pc = "done" /\ result # "none") =>
        /\ Len(log) > 0
        /\ aiOutcome = "text" => Len(log) > 1

\* C18 Audit trace (amended): a check whose pixel comparison passed writes
\* nothing; a check whose pixel comparison failed first writes the failure
\* line, then what the analysis met: the missing images, the classifier's
\* error, or the classifier's analysis and the verdict that matches the
\* result; without a client, or with an empty answer, only the failure line.
C18_AuditTraceOnFailure ==
    /\ pixel # "fail" => log = <<>>
    /\ (Escalated /\ pc # "compare_catch") => (Len(log) >= 1 /\ log[1] = LogFailed)
    /\ (pc = "done" /\ aiOutcome = "text") =>
          /\ Len(log) = 3
          /\ log[2] = "AI Analysis:"
          /\ result = "PASSED" =>
                log[3] = "AI determined differences are acceptable. Test will be marked as passed."
          /\ result = "FAILED" =>
                log[3] = "AI determined differences are significant. Test will fail."
    /\ (pc = "done" /\ aiOutcome = "noimages") =>
          log = << LogFailed, "Could not find actual or expected images for AI analysis." >>
    /\ (pc = "done" /\ aiOutcome = "error") => log = << LogFailed, LogAnalysisError >>
    /\ (pc = "done" /\ Escalated /\ (~openai \/ aiOutcome = "empty")) => log = << LogFailed >>

\* a check the classifier called significant: failure line, analysis, verdict
C18_Witness ==
    /\ pc = "done"
    /\ aiOutcome = "text"
    /\ result = "FAILED"
    /\ Len(log) = 3
    /\ log[1] = LogFailed

====
